---- MODULE Spec2Model ----
(***************************************************************************)
(* The C bridge of mecab-wrapper.rs (src/lib/cmecab.cpp): a flat set of    *)
(* extern "C" functions, each casting an opaque handle and forwarding to   *)
(* one method of the analysis engine (Model, Tagger, Lattice, Node).       *)
(*                                                                         *)
(* The bridge functions are modelled from cmecab.cpp.  The engine methods  *)
(* they forward to (the Lattice_*, Tagger_*, Model_* operators and the     *)
(* toy dictionary) are not part of the repository's sources; they are      *)
(* modelled from the engine contract of spec.md, sections 3, 4 and 8.      *)
(*                                                                         *)
(* Three specifications:                                                   *)
(*   Spec   one live Lattice driven through one live Tagger: the Lattice   *)
(*          state machine, N-best enumeration and the constraints.         *)
(*   SpecN  the same Lattice under the calls that write it, the setters    *)
(*          of the normalization factor and of theta among them.           *)
(*   SpecH  the handle lifecycle: creation (which may fail with a null     *)
(*          handle), release, and use of Model/Tagger/Lattice handles.     *)
(***************************************************************************)
EXTENDS Integers, Sequences, FiniteSets, TLC

VARIABLES
    lat,        \* Spec: the fields of the Lattice behind the lattice handle
    twhat,      \* Spec: the Tagger's error string (tagger_what)
    lastop,     \* Spec: the bridge function called last, with what is kept of the call
    ret,        \* Spec: what that call returned
    pre,        \* Spec: observer, the Lattice as that call found it
    nTrue,      \* Spec: observer, next_lattice calls that returned true since the last parse
    kParse,     \* Spec: observer, number of admissible analyses at the last successful parse
    models,     \* SpecH: storage state of each Model slot
    taggers,    \* SpecH: storage state and owning Model of each Tagger slot
    lattices,   \* SpecH: storage state and owning Model of each Lattice slot
    nullHeld,   \* SpecH: the caller holds a null Model handle from a failed creation
    proc,       \* SpecH: "running", or the outcome of undefined behaviour
    fault,      \* SpecH: the kind of undefined behaviour the last call ran into
    hop,        \* SpecH: the bridge function called last
    callerOK    \* SpecH: observer, the caller has not used or released a released handle

latVars == <<lat, twhat, lastop, ret, pre, nTrue, kParse>>
hVars == <<models, taggers, lattices, nullHeld, proc, fault, hop, callerOK>>
vars == <<lat, twhat, lastop, ret, pre, nTrue, kParse,
          models, taggers, lattices, nullHeld, proc, fault, hop, callerOK>>

(***************************************************************************)
(* Bounds                                                                  *)
(***************************************************************************)
MaxLen == 2           \* longest input buffer handed to set_sentence
MaxConstraints == 1   \* boundary plus feature constraints set at one time
MaxModels == 2        \* Model slots
MaxHandles == 1       \* Tagger slots, and Lattice slots

(***************************************************************************)
(* The toy engine: alphabet, dictionary, costs (spec.md section 8)         *)
(***************************************************************************)
Alphabet == {"a", "b"}

RECURSIVE BuffersOfLen(_)
BuffersOfLen(n) ==
    IF n = 0 THEN {<<>>}
    ELSE {<<c>> \o s : c \in Alphabet, s \in BuffersOfLen(n - 1)}

\* the byte buffers a caller may pass
Buffers == UNION {BuffersOfLen(n) : n \in 0..MaxLen}

Positions == 0..MaxLen
BoundaryKinds == {"any", "token_boundary", "inside_token"}
Features == {"F"}
NormValues == {"default", "tuned"}

\* the toy dictionary: "a" and "b" are tokens, and "ab" is also a token; "ba"
\* is a token too, so that a sentence such as "aba" has two analyses of equal
\* cost ({"ab","a"} and {"a","ba"}) besides {"a","b","a"}
InDictionary(surface) ==
    surface \in {<<"a">>, <<"b">>, <<"a", "b">>, <<"b", "a">>}

\* costs fixed so that {"ab"} beats {"a","b"}
WordCost(surface) == IF Len(surface) = 1 THEN 2 ELSE 3

Surface(sentence, node) == SubSeq(sentence, node.b + 1, node.e)

RECURSIVE PathCost(_, _)
PathCost(sentence, chain) ==
    IF chain = <<>> THEN 0
    ELSE WordCost(Surface(sentence, Head(chain))) + PathCost(sentence, Tail(chain))

(***************************************************************************)
(* The engine's Lattice (spec.md sections 3 and 4.3)                       *)
(***************************************************************************)
NoFeature == [e |-> 0, f |-> ""]

\* a Lattice as created, and as clear() leaves it
DefaultLattice ==
    [sentSet |-> FALSE, sentence |-> <<>>, size |-> 0,
     built |-> FALSE, nbest |-> <<>>, cursor |-> 0, chain |-> <<>>,
     result |-> <<>>,
     boundary |-> [p \in Positions |-> "any"],
     feature |-> [p \in Positions |-> NoFeature],
     Z |-> "default", theta |-> "default"]

\* the Lattice states of section 4.3
LatticeState(l) ==
    IF ~l.sentSet THEN "Empty"
    ELSE IF ~l.built THEN "Ready"
    ELSE IF l.cursor = 1 THEN "Parsed"
    ELSE "Enumerating"

\* every way to cut [from, n) into spans
RECURSIVE SegsFrom(_, _)
SegsFrom(from, n) ==
    IF from = n THEN {<<>>}
    ELSE UNION {{<<[b |-> from, e |-> e]>> \o rest : rest \in SegsFrom(e, n)} :
                e \in (from + 1)..n}

SpanSet(seg) == {seg[i] : i \in 1..Len(seg)}

\* the feature constraints that lie inside a sentence of n bytes
ActiveFeatures(feature, n) ==
    {b \in Positions : feature[b].f # "" /\ feature[b].e <= n}

\* a cut of the sentence is admissible when every span is a dictionary token
\* or a feature-constrained span, every feature-constrained span is one of its
\* spans, no span begins or ends at a position marked inside_token, and every
\* position marked token_boundary is the begin or end of a span
AdmissibleSeg(seg, sentence, boundary, feature) ==
    LET n == Len(sentence)
        spans == SpanSet(seg)
        act == ActiveFeatures(feature, n)
        forced(sp) == sp.b \in act /\ feature[sp.b].e = sp.e
    IN /\ \A sp \in spans :
              \/ forced(sp)
              \/ InDictionary(SubSeq(sentence, sp.b + 1, sp.e))
       /\ \A b \in act : [b |-> b, e |-> feature[b].e] \in spans
       /\ \A p \in 0..n :
              /\ boundary[p] = "inside_token" =>
                     \A sp \in spans : sp.b # p /\ sp.e # p
              /\ boundary[p] = "token_boundary" =>
                     (p = 0 \/ \E sp \in spans : sp.e = p)

\* the nodes of a cut: each span with the feature it is tagged with
TagNodes(seg, feature, n) ==
    [i \in 1..Len(seg) |->
        [b |-> seg[i].b, e |-> seg[i].e,
         f |-> IF seg[i].b \in ActiveFeatures(feature, n)
                  /\ feature[seg[i].b].e = seg[i].e
               THEN feature[seg[i].b].f ELSE "dict"]]

Analyses(sentence, boundary, feature) ==
    {TagNodes(seg, feature, Len(sentence)) :
        seg \in {s \in SegsFrom(0, Len(sentence)) :
                    AdmissibleSeg(s, sentence, boundary, feature)}}

RECURSIVE Pow2(_)
Pow2(n) == IF n = 0 THEN 1 ELSE 2 * Pow2(n - 1)

\* a number that tells two cuts of one sentence apart: the set of their cuts
RECURSIVE CutCode(_)
CutCode(chain) ==
    IF chain = <<>> THEN 0 ELSE Pow2(Head(chain).b) + CutCode(Tail(chain))

\* the enumeration order: ascending cost, ties by cut code
Before(x, y, sentence) ==
    \/ PathCost(sentence, x) < PathCost(sentence, y)
    \/ /\ PathCost(sentence, x) = PathCost(sentence, y)
       /\ CutCode(x) < CutCode(y)

RECURSIVE Ranked(_, _)
Ranked(S, sentence) ==
    IF S = {} THEN <<>>
    ELSE LET m == CHOOSE x \in S : \A y \in S \ {x} : Before(x, y, sentence)
         IN <<m>> \o Ranked(S \ {m}, sentence)

\* the formatted analysis: one line per node's surface, then EOS
Format(sentence, chain) ==
    [i \in 1..Len(chain) |-> Surface(sentence, chain[i])] \o <<<<"EOS">>>>

RECURSIVE FormatAll(_, _)
FormatAll(sentence, chains) ==
    IF chains = <<>> THEN <<>>
    ELSE Format(sentence, Head(chains)) \o FormatAll(sentence, Tail(chains))

Lattice_clear(l) == DefaultLattice

Lattice_set_sentence(l, input, len) ==
    [l EXCEPT !.sentSet = TRUE, !.sentence = SubSeq(input, 1, len), !.size = len,
              !.built = FALSE, !.nbest = <<>>, !.cursor = 0, !.chain = <<>>,
              !.result = <<>>]

Lattice_is_available(l) == l.sentSet /\ l.size > 0

\* the parse-derived fields dropped, the caller-set inputs kept
ResetParse(l) ==
    [l EXCEPT !.built = FALSE, !.nbest = <<>>, !.cursor = 0, !.chain = <<>>,
              !.result = <<>>]

Tagger_parse(l) ==
    LET r == ResetParse(l)
        ranked == Ranked(Analyses(l.sentence, l.boundary, l.feature), l.sentence)
    IN IF ~Lattice_is_available(l) \/ ranked = <<>>
       THEN [ok |-> FALSE, lat |-> r]
       ELSE [ok |-> TRUE,
             lat |-> [r EXCEPT !.built = TRUE, !.nbest = ranked, !.cursor = 1,
                               !.chain = ranked[1],
                               !.result = Format(l.sentence, ranked[1])]]

Lattice_next(l) ==
    IF l.built /\ l.cursor < Len(l.nbest)
    THEN [ok |-> TRUE,
          lat |-> [l EXCEPT !.cursor = l.cursor + 1,
                            !.chain = l.nbest[l.cursor + 1],
                            !.result = Format(l.sentence, l.nbest[l.cursor + 1])]]
    ELSE [ok |-> FALSE, lat |-> l]

Min(a, b) == IF a < b THEN a ELSE b

\* the first n ranked analyses as one string; the Lattice is not touched
Lattice_enumNBestAsString(l, n) ==
    IF ~l.built THEN <<>>
    ELSE FormatAll(l.sentence, SubSeq(l.nbest, 1, Min(n, Len(l.nbest))))

Lattice_toString(l) == l.result

ConstraintCount(l) ==
    Cardinality({p \in Positions : l.boundary[p] # "any"})
    + Cardinality({p \in Positions : l.feature[p] # NoFeature})

Lattice_has_constraint(l) == ConstraintCount(l) > 0

Lattice_set_boundary_constraint(l, pos, kind) ==
    [l EXCEPT !.boundary[pos] = kind]

Lattice_set_feature_constraint(l, begin, end, f) ==
    [l EXCEPT !.feature[begin] = [e |-> end, f |-> f]]

\* the node chain as handles: 1 is bos, Len + 2 is eos, 0 is the null handle
Lattice_bos_node(l) == IF l.built THEN 1 ELSE 0
Lattice_eos_node(l) == IF l.built THEN Len(l.chain) + 2 ELSE 0

(***************************************************************************)
(* The bridge functions on a Lattice (cmecab.cpp).  Readers are operators  *)
(* on the Lattice; mutating functions are actions on lat.                  *)
(***************************************************************************)
NoPre == DefaultLattice
Void == [b |-> FALSE, s |-> <<>>]
Bool(v) == [b |-> v, s |-> <<>>]
Str(v) == [b |-> FALSE, s |-> v]

Op == lastop[1]

is_available(l) == Lattice_is_available(l)
lattice_sentence(l) == l.sentence
lattice_sentence_size(l) == l.size
lattice_to_string(l) == Lattice_toString(l)
bos_node(l) == Lattice_bos_node(l)
eos_node(l) == Lattice_eos_node(l)
lattice_has_constraint(l) == Lattice_has_constraint(l)
lattice_boundary_constraint(l, pos) == l.boundary[pos]
lattice_feature_constraint(l, pos) == l.feature[pos].f
lattice_norm_factor(l) == l.Z
lattice_theta(l) == l.theta
tagger_what == twhat

\* node->next: the successor handle, null after eos
next_node(l, node) == IF node < eos_node(l) THEN node + 1 ELSE 0

\* the surface spans of the nodes between bos_node and eos_node
NodeSpans(l) == {[b |-> l.chain[i].b, e |-> l.chain[i].e] : i \in 1..Len(l.chain)}
NodeSurfaces(l) == [i \in 1..Len(l.chain) |-> Surface(l.sentence, l.chain[i])]

\* the record of a bridge call, kept beside the Lattice for the properties:
\*   lastop  the call, with what the properties need of its arguments and of
\*           the Lattice it was made on
\*   ret     its result
\*   pre     the Lattice as the call found it, for the calls whose effect is
\*           stated against it (NoPre for the others)
\*   nTrue   the true results of next_lattice since the last parse (a sentence
\*           of MaxLen bytes has fewer than Pow2(MaxLen) analyses)
\*   kParse  the number of admissible analyses of the sentence when parsed
\* and the Tagger's error string as the call leaves it
Called(op, r, w, p) ==
    /\ lastop' = op
    /\ ret' = r
    /\ twhat' = w
    /\ pre' = p
    /\ nTrue' = IF op[1] \in {"parse", "set_sentence", "clear_lattice"} THEN 0
                ELSE IF op[1] = "next_lattice" /\ r.b /\ nTrue < Pow2(MaxLen)
                THEN nTrue + 1
                ELSE nTrue
    /\ kParse' = IF op[1] = "parse" /\ r.b
                 THEN Cardinality(Analyses(lat.sentence, lat.boundary, lat.feature))
                 ELSE IF op[1] \in {"parse", "set_sentence", "clear_lattice"} THEN 0
                 ELSE kParse

\* set_sentence as it would be if it overwrote the sentence alone
set_sentence_keeps_graph(input, len) ==
    /\ lat' = [lat EXCEPT !.sentSet = TRUE, !.sentence = SubSeq(input, 1, len),
                          !.size = len]
    /\ Called(<<"set_sentence", input, len, lat.built>>, Void, twhat, NoPre)
    /\ UNCHANGED hVars

\* set_sentence as it would be if it passed a length one short
set_sentence_short(input, len) ==
    /\ lat' = Lattice_set_sentence(lat, input, IF len > 0 THEN len - 1 ELSE 0)
    /\ Called(<<"set_sentence", input, len, lat.built>>, Void, twhat, NoPre)
    /\ UNCHANGED hVars

set_sentence(input, len) ==
    /\ lat' = Lattice_set_sentence(lat, input, len)
    /\ Called(<<"set_sentence", input, len, lat.built>>, Void, twhat, NoPre)
    /\ UNCHANGED hVars

\* parse as it would be if it dropped the Tagger's verdict
parse_reports_true ==
    /\ lat' = Tagger_parse(lat).lat
    /\ Called(<<"parse", LatticeState(lat)>>, Bool(TRUE),
              IF Tagger_parse(lat).ok THEN twhat ELSE "error", ResetParse(lat))
    /\ UNCHANGED hVars

\* parse as it would be if it reset an already parsed Lattice with clear()
\* before analysing it again
parse_clears_parsed ==
    LET l == IF lat.built THEN Lattice_clear(lat) ELSE lat
    IN /\ lat' = Tagger_parse(l).lat
       /\ Called(<<"parse", LatticeState(lat)>>, Bool(Tagger_parse(l).ok),
                 IF Tagger_parse(l).ok THEN twhat ELSE "error", ResetParse(lat))
       /\ UNCHANGED hVars

parse ==
    /\ lat' = Tagger_parse(lat).lat
    /\ Called(<<"parse", LatticeState(lat)>>, Bool(Tagger_parse(lat).ok),
              IF Tagger_parse(lat).ok THEN twhat ELSE "error", ResetParse(lat))
    /\ UNCHANGED hVars

RECURSIVE AdvanceN(_, _)
AdvanceN(l, n) ==
    IF n = 0 \/ ~Lattice_next(l).ok THEN l ELSE AdvanceN(Lattice_next(l).lat, n - 1)

\* nbest_string as it would be if it collected the analyses by stepping the
\* Lattice with next()
nbest_string_by_next(n) ==
    /\ lat' = AdvanceN(lat, n)
    /\ Called(<<"nbest_string", n>>, Str(Lattice_enumNBestAsString(lat, n)),
              twhat, lat)
    /\ UNCHANGED hVars

nbest_string(n) ==
    /\ lat' = lat
    /\ Called(<<"nbest_string", n>>, Str(Lattice_enumNBestAsString(lat, n)),
              twhat, lat)
    /\ UNCHANGED hVars

\* next_lattice as it would be if it dropped the Lattice's verdict
next_lattice_reports_true ==
    /\ lat' = Lattice_next(lat).lat
    /\ Called(<<"next_lattice">>, Bool(TRUE), twhat, lat)
    /\ UNCHANGED hVars

next_lattice ==
    /\ lat' = Lattice_next(lat).lat
    /\ Called(<<"next_lattice">>, Bool(Lattice_next(lat).ok), twhat, lat)
    /\ UNCHANGED hVars

\* clear_lattice as it would be if it reset the Lattice by setting an empty
\* sentence
clear_lattice_by_set_sentence ==
    /\ lat' = Lattice_set_sentence(lat, <<>>, 0)
    /\ Called(<<"clear_lattice", LatticeState(lat), Op, twhat>>, Void, twhat,
              IF Op = "clear_lattice" THEN lat ELSE NoPre)
    /\ UNCHANGED hVars

\* recorded with the call: the state it was made in, the call before it and
\* the Tagger's error string before it; and the Lattice it found, when the
\* call before it was a clear_lattice too
clear_lattice ==
    /\ lat' = Lattice_clear(lat)
    /\ Called(<<"clear_lattice", LatticeState(lat), Op, twhat>>, Void, twhat,
              IF Op = "clear_lattice" THEN lat ELSE NoPre)
    /\ UNCHANGED hVars

\* lattice_set_boundary_constraint as it would be if it took pos for a
\* one-based index
lattice_set_boundary_constraint_one_based(pos, boundary) ==
    /\ lat' = Lattice_set_boundary_constraint(lat, IF pos > 0 THEN pos - 1 ELSE 0,
                                              boundary)
    /\ Called(<<"lattice_set_boundary_constraint",
                lattice_boundary_constraint(lat', pos) = boundary>>,
              Void, twhat, NoPre)
    /\ UNCHANGED hVars

\* recorded with the call: whether the offset it was given reads back the
\* kind it was given
lattice_set_boundary_constraint(pos, boundary) ==
    /\ lat' = Lattice_set_boundary_constraint(lat, pos, boundary)
    /\ Called(<<"lattice_set_boundary_constraint",
                lattice_boundary_constraint(lat', pos) = boundary>>,
              Void, twhat, NoPre)
    /\ UNCHANGED hVars

lattice_set_feature_constraint(begin_pos, end_pos, feature) ==
    /\ lat' = Lattice_set_feature_constraint(lat, begin_pos, end_pos, feature)
    /\ Called(<<"lattice_set_feature_constraint">>, Void, twhat, NoPre)
    /\ UNCHANGED hVars

lattice_set_norm_factor(norm) ==
    /\ lat' = [lat EXCEPT !.Z = norm]
    /\ Called(<<"lattice_set_norm_factor">>, Void, twhat, NoPre)
    /\ UNCHANGED hVars

lattice_set_theta(theta) ==
    /\ lat' = [lat EXCEPT !.theta = theta]
    /\ Called(<<"lattice_set_theta">>, Void, twhat, NoPre)
    /\ UNCHANGED hVars

\* a caller passes a buffer and a length within it: the whole buffer, or all
\* but its last byte
SetSentence ==
    \E input \in Buffers : \E len \in {Len(input) - 1, Len(input)} \cap Nat :
        set_sentence(input, len)

\* n from none to more analyses than a short sentence has
NBestString == \E n \in 0..MaxLen : nbest_string(n)

\* a caller sets at most MaxConstraints constraints at a time
SetBoundary ==
    \E pos \in Positions, kind \in BoundaryKinds :
        /\ ConstraintCount(Lattice_set_boundary_constraint(lat, pos, kind))
               <= MaxConstraints
        /\ lattice_set_boundary_constraint(pos, kind)

SetFeature ==
    \E b \in Positions, e \in Positions, f \in Features :
        /\ b < e
        /\ ConstraintCount(Lattice_set_feature_constraint(lat, b, e, f))
               <= MaxConstraints
        /\ lattice_set_feature_constraint(b, e, f)

SetNorm == \E v \in NormValues : lattice_set_norm_factor(v)

SetTheta == \E v \in NormValues : lattice_set_theta(v)

(***************************************************************************)
(* The handle lifecycle (cmecab.cpp, creation and release functions).      *)
(* A slot is "free" until a creation function hands it out, "live" while   *)
(* its object exists and "released" once the object has been deleted.  rel *)
(* is the caller's own record of having passed the handle to its delete    *)
(* function.  Handle 0 is the null handle.                                 *)
(***************************************************************************)
ModelSlots == 1..MaxModels
HandleSlots == 1..MaxHandles
NoObject == [st |-> "free", model |-> 0, rel |-> FALSE]

\* createModel: the new Model, or the null handle when the dictionary named
\* by the options cannot be loaded
Model_create(arg, slot) == IF arg = "good" THEN slot ELSE 0

\* ~Model: the Model's own storage goes; Taggers and Lattices derived from
\* it keep theirs
Model_destroy(m) ==
    /\ models' = [models EXCEPT ![m] = [st |-> "released", rel |-> TRUE]]
    /\ UNCHANGED <<taggers, lattices>>

FreeModels == {m \in ModelSlots : models[m].st = "free"}
FreeTaggers == {t \in HandleSlots : taggers[t].st = "free"}
FreeLattices == {l \in HandleSlots : lattices[l].st = "free"}
Lowest(S) == CHOOSE x \in S : \A y \in S : x <= y

\* the handles a caller can pass: those it was given, released or not, and
\* the null Model handle once a creation has failed
ModelArgs == {m \in ModelSlots : models[m].st # "free"}
                 \cup (IF nullHeld THEN {0} ELSE {})
TaggerArgs == {t \in HandleSlots : taggers[t].st # "free"}
LatticeArgs == {l \in HandleSlots : lattices[l].st # "free"}

\* the owner of a derived object is gone
ModelGone(m) == m # 0 /\ models[m].st = "released"

\* a call that stays within defined behaviour
Defined(op) ==
    /\ proc' = "running"
    /\ fault' = "none"
    /\ hop' = op

\* a call that runs into undefined behaviour: the process crashes, or goes
\* on in an undefined state; either way nothing more is known about it
Undefined(op, kind) ==
    /\ proc' \in {"crashed", "undefined"}
    /\ fault' = kind
    /\ hop' = op
    /\ UNCHANGED <<models, taggers, lattices, nullHeld>>

\* the caller keeps to the ownership contract in this call
Keeps == callerOK' = callerOK
Breaks == callerOK' = FALSE

new_model(name, arg) ==
    /\ proc = "running"
    /\ FreeModels # {}
    /\ LET h == Model_create(arg, Lowest(FreeModels))
       IN /\ models' = IF h = 0 THEN models
                       ELSE [models EXCEPT ![h] = [st |-> "live", rel |-> FALSE]]
          /\ nullHeld' = (nullHeld \/ h = 0)
          /\ Defined(<<name, h>>)
    /\ Keeps
    /\ UNCHANGED <<taggers, lattices, latVars>>

new_model_argv(argv) == new_model("new_model_argv", argv)

new_model_single(arg) == new_model("new_model_single", arg)

\* delete_model as it would be if it released the derived Taggers and
\* Lattices together with the Model
delete_model_cascade(m) ==
    /\ proc = "running"
    /\ IF m = 0
       THEN /\ Defined(<<"delete_model", m>>) /\ Keeps
            /\ UNCHANGED <<models, taggers, lattices, nullHeld>>
       ELSE IF models[m].st = "live"
       THEN /\ models' = [models EXCEPT ![m] = [st |-> "released", rel |-> TRUE]]
            /\ taggers' = [t \in HandleSlots |->
                              IF taggers[t].st = "live" /\ taggers[t].model = m
                              THEN [taggers[t] EXCEPT !.st = "released"]
                              ELSE taggers[t]]
            /\ lattices' = [l \in HandleSlots |->
                               IF lattices[l].st = "live" /\ lattices[l].model = m
                               THEN [lattices[l] EXCEPT !.st = "released"]
                               ELSE lattices[l]]
            /\ Defined(<<"delete_model", m>>) /\ Keeps
            /\ UNCHANGED nullHeld
       ELSE Undefined(<<"delete_model", m>>, "double_release") /\ Breaks
    /\ UNCHANGED latVars

delete_model(m) ==
    /\ proc = "running"
    /\ IF m = 0
       THEN /\ Defined(<<"delete_model", m>>) /\ Keeps
            /\ UNCHANGED <<models, taggers, lattices, nullHeld>>
       ELSE IF models[m].st = "live"
       THEN /\ Model_destroy(m)
            /\ Defined(<<"delete_model", m>>) /\ Keeps
            /\ UNCHANGED nullHeld
       ELSE Undefined(<<"delete_model", m>>, "double_release") /\ Breaks
    /\ UNCHANGED latVars

\* model->method() for the Model behind handle m
model_call(name, m) ==
    /\ proc = "running"
    /\ IF m = 0
       THEN Undefined(<<name, m>>, "null_dereference") /\ Keeps
       ELSE IF models[m].st = "released"
       THEN Undefined(<<name, m>>, "use_after_release") /\ Breaks
       ELSE /\ Defined(<<name, m>>) /\ Keeps
            /\ UNCHANGED <<models, taggers, lattices, nullHeld>>
    /\ UNCHANGED latVars

dictionary_info(m) == model_call("dictionary_info", m)

transition_cost(m) == model_call("transition_cost", m)

new_tagger(m) ==
    /\ proc = "running"
    /\ FreeTaggers # {}
    /\ IF m = 0
       THEN Undefined(<<"new_tagger", m>>, "null_dereference") /\ Keeps
       ELSE IF models[m].st = "released"
       THEN Undefined(<<"new_tagger", m>>, "use_after_release") /\ Breaks
       ELSE /\ taggers' = [taggers EXCEPT ![Lowest(FreeTaggers)] =
                              [st |-> "live", model |-> m, rel |-> FALSE]]
            /\ Defined(<<"new_tagger", m>>) /\ Keeps
            /\ UNCHANGED <<models, lattices, nullHeld>>
    /\ UNCHANGED latVars

delete_tagger(t) ==
    /\ proc = "running"
    /\ IF taggers[t].st = "live"
       THEN /\ taggers' = [taggers EXCEPT ![t].st = "released", ![t].rel = TRUE]
            /\ Defined(<<"delete_tagger", t>>)
            /\ UNCHANGED <<models, lattices, nullHeld>>
       ELSE Undefined(<<"delete_tagger", t>>, "double_release")
    /\ IF taggers[t].rel THEN Breaks ELSE Keeps
    /\ UNCHANGED latVars

new_lattice(m) ==
    /\ proc = "running"
    /\ FreeLattices # {}
    /\ IF m = 0
       THEN Undefined(<<"new_lattice", m>>, "null_dereference") /\ Keeps
       ELSE IF models[m].st = "released"
       THEN Undefined(<<"new_lattice", m>>, "use_after_release") /\ Breaks
       ELSE /\ lattices' = [lattices EXCEPT ![Lowest(FreeLattices)] =
                               [st |-> "live", model |-> m, rel |-> FALSE]]
            /\ Defined(<<"new_lattice", m>>) /\ Keeps
            /\ UNCHANGED <<models, taggers, nullHeld>>
    /\ UNCHANGED latVars

new_lattice_standalone ==
    /\ proc = "running"
    /\ FreeLattices # {}
    /\ lattices' = [lattices EXCEPT ![Lowest(FreeLattices)] =
                       [st |-> "live", model |-> 0, rel |-> FALSE]]
    /\ Defined(<<"new_lattice_standalone", 0>>) /\ Keeps
    /\ UNCHANGED <<models, taggers, nullHeld, latVars>>

delete_lattice(l) ==
    /\ proc = "running"
    /\ IF lattices[l].st = "live"
       THEN /\ lattices' = [lattices EXCEPT ![l].st = "released", ![l].rel = TRUE]
            /\ Defined(<<"delete_lattice", l>>)
            /\ UNCHANGED <<models, taggers, nullHeld>>
       ELSE Undefined(<<"delete_lattice", l>>, "double_release")
    /\ IF lattices[l].rel THEN Breaks ELSE Keeps
    /\ UNCHANGED latVars

\* lattice->method() for the Lattice behind handle l (bos_node,
\* lattice_to_string and the other functions on a Lattice)
lattice_call(l) ==
    /\ proc = "running"
    /\ IF lattices[l].st = "released" \/ ModelGone(lattices[l].model)
       THEN Undefined(<<"lattice_call", l>>, "use_after_release")
       ELSE /\ Defined(<<"lattice_call", l>>)
            /\ UNCHANGED <<models, taggers, lattices, nullHeld>>
    /\ IF lattices[l].rel \/ (lattices[l].model # 0 /\ models[lattices[l].model].rel)
       THEN Breaks ELSE Keeps
    /\ UNCHANGED latVars

\* tagger->parse(lattice) for the Tagger and Lattice behind handles t and l
tagger_parse_call(t, l) ==
    /\ proc = "running"
    /\ IF \/ taggers[t].st = "released" \/ ModelGone(taggers[t].model)
          \/ lattices[l].st = "released" \/ ModelGone(lattices[l].model)
       THEN Undefined(<<"parse", t>>, "use_after_release")
       ELSE /\ Defined(<<"parse", t>>)
            /\ UNCHANGED <<models, taggers, lattices, nullHeld>>
    /\ IF \/ taggers[t].rel \/ models[taggers[t].model].rel
          \/ lattices[l].rel
          \/ (lattices[l].model # 0 /\ models[lattices[l].model].rel)
       THEN Breaks ELSE Keeps
    /\ UNCHANGED latVars

HInit ==
    /\ models = [m \in ModelSlots |-> [st |-> "free", rel |-> FALSE]]
    /\ taggers = [t \in HandleSlots |-> NoObject]
    /\ lattices = [l \in HandleSlots |-> NoObject]
    /\ nullHeld = FALSE
    /\ proc = "running"
    /\ fault = "none"
    /\ hop = <<"none", 0>>
    /\ callerOK = TRUE

Init ==
    /\ lat = DefaultLattice
    /\ twhat = ""
    /\ lastop = <<"new_lattice_standalone">>
    /\ ret = Void
    /\ pre = NoPre
    /\ nTrue = 0
    /\ kParse = 0
    /\ HInit

\* the calls a caller makes on one Lattice to analyse sentences
Next ==
    \/ SetSentence
    \/ parse
    \/ next_lattice
    \/ NBestString
    \/ clear_lattice
    \/ SetBoundary
    \/ SetFeature

Spec == Init /\ [][Next]_vars

\* the calls that write a Lattice, the normalization setters among them
NextN ==
    \/ SetSentence
    \/ parse
    \/ next_lattice
    \/ clear_lattice
    \/ SetBoundary
    \/ SetFeature
    \/ SetNorm
    \/ SetTheta

SpecN == Init /\ [][NextN]_vars

NewModelArgv == \E argv \in {"good", "bad"} : new_model_argv(argv)
NewModelSingle == \E arg \in {"good", "bad"} : new_model_single(arg)
DeleteModel == \E m \in ModelArgs : delete_model(m)
DictionaryInfo == \E m \in ModelArgs : dictionary_info(m)
TransitionCost == \E m \in ModelArgs : transition_cost(m)
NewTagger == \E m \in ModelArgs : new_tagger(m)
DeleteTagger == \E t \in TaggerArgs : delete_tagger(t)
NewLattice == \E m \in ModelArgs : new_lattice(m)
DeleteLattice == \E l \in LatticeArgs : delete_lattice(l)
LatticeCall == \E l \in LatticeArgs : lattice_call(l)
ParseCall == \E t \in TaggerArgs, l \in LatticeArgs : tagger_parse_call(t, l)

NextH ==
    \/ NewModelArgv
    \/ NewModelSingle
    \/ DeleteModel
    \/ DictionaryInfo
    \/ TransitionCost
    \/ NewTagger
    \/ DeleteTagger
    \/ NewLattice
    \/ new_lattice_standalone
    \/ DeleteLattice
    \/ LatticeCall
    \/ ParseCall

SpecH == Init /\ [][NextH]_vars

(***************************************************************************)
(* Properties                                                              *)
(***************************************************************************)
\* the analyses the coming next_lattice calls will move to, in order
RECURSIVE Upcoming(_)
Upcoming(l) ==
    IF Lattice_next(l).ok
    THEN <<Lattice_next(l).lat.chain>> \o Upcoming(Lattice_next(l).lat)
    ELSE <<>>

\* C1: for a parsed Lattice whose sentence has k >= 2 admissible analyses,
\* next_lattice returns true exactly k-1 times (never more than k-1 trues, and
\* false only once k-1 trues have been returned), each true call moves to
\* another analysis whose cost is not lower than the previous one's, and a
\* call that returns false leaves the Lattice exactly as it found it.
C1_NBestEnumeration ==
    /\ lat.built /\ kParse >= 2 => nTrue <= kParse - 1
    /\ Op = "next_lattice" /\ lat.built /\ kParse >= 2 =>
           IF ret.b
           THEN /\ lat.chain # pre.chain
                /\ PathCost(lat.sentence, lat.chain)
                       >= PathCost(pre.sentence, pre.chain)
           ELSE nTrue = kParse - 1
    /\ Op = "next_lattice" /\ ~ret.b => lat = pre

\* the k-th call on a sentence with k >= 2 analyses has returned false
C1_Witness ==
    /\ Op = "next_lattice" /\ ~ret.b
    /\ lat.built /\ kParse >= 2 /\ nTrue = kParse - 1

\* C2: after set_sentence(lattice, "", 0) is_available is false; parse on a
\* Lattice whose sentence is the empty string returns false, records an error
\* for tagger_what and leaves no node graph and no result; and parse returns
\* true only if is_available was true when it was called.
C2_EmptyInputParse ==
    /\ Op = "set_sentence" /\ lastop[3] = 0 => ~is_available(lat)
    /\ Op = "parse" /\ pre.sentSet /\ lattice_sentence_size(pre) = 0 =>
           /\ ~ret.b
           /\ tagger_what # ""
           /\ bos_node(lat) = 0
           /\ lattice_to_string(lat) = <<>>
    /\ Op = "parse" /\ ret.b => is_available(pre)

\* parse has failed on a Lattice whose sentence was set to the empty string
C2_Witness ==
    /\ Op = "parse" /\ ~ret.b
    /\ pre.sentSet /\ lattice_sentence_size(pre) = 0
    /\ tagger_what = "error"

\* C3: set_sentence, called in any Lattice state, leaves the Lattice in state
\* Ready with the sentence replaced by the given bytes and with no node and no
\* result of an earlier parse or N-best step observable.
C3_SetSentenceToReady ==
    Op = "set_sentence" =>
        /\ LatticeState(lat) = "Ready"
        /\ lattice_sentence(lat) = SubSeq(lastop[2], 1, lastop[3])
        /\ bos_node(lat) = 0
        /\ eos_node(lat) = 0
        /\ NodeSpans(lat) = {}
        /\ lattice_to_string(lat) = <<>>

\* set_sentence has been called on a Lattice that held a node graph
C3_Witness ==
    /\ Op = "set_sentence" /\ lastop[4]
    /\ LatticeState(lat) = "Ready"

\* C4: clear_lattice, called in any Lattice state, yields state Empty with no
\* node graph, no sentence, no result, no boundary or feature constraint and
\* the normalization fields at their defaults, and records no error; a second
\* clear_lattice in a row leaves the Lattice as the first one left it.
C4_ClearResetsIdempotent ==
    /\ Op = "clear_lattice" =>
           /\ LatticeState(lat) = "Empty"
           /\ bos_node(lat) = 0 /\ eos_node(lat) = 0 /\ NodeSpans(lat) = {}
           /\ lattice_sentence(lat) = <<>> /\ lattice_sentence_size(lat) = 0
           /\ lattice_to_string(lat) = <<>>
           /\ ~lattice_has_constraint(lat)
           /\ \A p \in Positions :
                  /\ lattice_boundary_constraint(lat, p) = "any"
                  /\ lattice_feature_constraint(lat, p) = ""
           /\ lattice_norm_factor(lat) = "default"
           /\ lattice_theta(lat) = "default"
           /\ tagger_what = lastop[4]
    /\ Op = "clear_lattice" /\ lastop[3] = "clear_lattice" => lat = pre

\* clear_lattice has been called twice in a row
C4_Witness ==
    /\ Op = "clear_lattice" /\ lastop[3] = "clear_lattice"
    /\ LatticeState(lat) = "Empty"

\* C5: after set_sentence(lattice, s, len(s)), lattice_sentence returns
\* exactly s and lattice_sentence_size returns len(s), whatever state the
\* Lattice was in before.
C5_SentenceRoundTrip ==
    Op = "set_sentence" /\ lastop[3] = Len(lastop[2]) =>
        /\ lattice_sentence(lat) = lastop[2]
        /\ lattice_sentence_size(lat) = Len(lastop[2])

\* a sentence of the greatest length has been set on a parsed Lattice
C5_Witness ==
    /\ Op = "set_sentence" /\ lastop[3] = Len(lastop[2]) /\ lastop[3] = MaxLen
    /\ lastop[4]
    /\ lattice_sentence(lat) = lastop[2]

\* C6: nbest_string(lattice, n) moves neither the enumeration cursor nor the
\* node chain between bos_node and eos_node, and the results and analyses of
\* the next_lattice calls that follow are what they would have been.
C6_NBestStringIndependent ==
    Op = "nbest_string" =>
        /\ lat.cursor = pre.cursor
        /\ bos_node(lat) = bos_node(pre)
        /\ eos_node(lat) = eos_node(pre)
        /\ lat.chain = pre.chain
        /\ Upcoming(lat) = Upcoming(pre)

\* nbest_string has returned two analyses of a Lattice that next_lattice has
\* not stepped yet
C6_Witness ==
    /\ Op = "nbest_string" /\ lastop[2] = 2
    /\ LatticeState(lat) = "Parsed" /\ Upcoming(lat) # <<>>
    /\ ret.s = FormatAll(lat.sentence, SubSeq(lat.nbest, 1, 2))

\* C7: lattice_set_boundary_constraint marks the offset it is given; after a
\* successful parse no node of the chain begins or ends at an offset marked as
\* forbidding a split; and for the sentence "ab" the unconstrained chain is
\* the single token "ab", while a boundary forced at offset 1 makes it the
\* two tokens "a", "b".
C7_BoundaryConstraint ==
    /\ Op = "lattice_set_boundary_constraint" => lastop[2]
    /\ Op = "parse" /\ ret.b =>
           \A p \in Positions :
               lattice_boundary_constraint(lat, p) = "inside_token" =>
                   \A sp \in NodeSpans(lat) : sp.b # p /\ sp.e # p
    /\ Op = "parse" /\ ret.b /\ lattice_sentence(lat) = <<"a", "b">> =>
           /\ ~lattice_has_constraint(lat) =>
                  NodeSurfaces(lat) = <<<<"a", "b">>>>
           /\ lattice_boundary_constraint(lat, 1) = "token_boundary" =>
                  NodeSurfaces(lat) = <<<<"a">>, <<"b">>>>

\* "ab" has been parsed into "a", "b" under a boundary forced at offset 1
C7_Witness ==
    /\ Op = "parse" /\ ret.b
    /\ lattice_sentence(lat) = <<"a", "b">>
    /\ lattice_boundary_constraint(lat, 1) = "token_boundary"
    /\ NodeSurfaces(lat) = <<<<"a">>, <<"b">>>>

\* C9: parse on a Lattice that is Parsed or Enumerating leaves the sentence,
\* its size and every boundary and feature constraint as they were, and the
\* parse-derived fields are those of a fresh analysis: on success the cursor
\* is back on the first result, the chain is a cheapest admissible analysis
\* and the result string is its rendering; on failure no node graph and no
\* result remain.
C9_ReparsePreservesInputs ==
    Op = "parse" /\ lastop[2] \in {"Parsed", "Enumerating"} =>
        /\ lattice_sentence(lat) = lattice_sentence(pre)
        /\ lattice_sentence_size(lat) = lattice_sentence_size(pre)
        /\ lattice_has_constraint(lat) = lattice_has_constraint(pre)
        /\ \A p \in Positions :
               /\ lattice_boundary_constraint(lat, p)
                      = lattice_boundary_constraint(pre, p)
               /\ lattice_feature_constraint(lat, p)
                      = lattice_feature_constraint(pre, p)
        /\ lat.feature = pre.feature
        /\ IF ret.b
           THEN /\ LatticeState(lat) = "Parsed"
                /\ nTrue = 0
                /\ lat.chain \in Analyses(pre.sentence, pre.boundary, pre.feature)
                /\ \A a \in Analyses(pre.sentence, pre.boundary, pre.feature) :
                       PathCost(pre.sentence, lat.chain)
                           <= PathCost(pre.sentence, a)
                /\ lattice_to_string(lat) = Format(pre.sentence, lat.chain)
           ELSE /\ bos_node(lat) = 0
                /\ lattice_to_string(lat) = <<>>

\* an Enumerating Lattice with a constraint set has been parsed again
C9_Witness ==
    /\ Op = "parse" /\ lastop[2] = "Enumerating" /\ ret.b
    /\ lattice_has_constraint(lat)

\* C8 (as claimed): as long as the caller has not used a handle after its
\* release, no bridge call reaches a crash or an undefined state.
C8_NoCrashWithoutUseAfterRelease ==
    callerOK => proc = "running"

\* C10: delete_model releases the given Model and nothing else: the Taggers
\* and Lattices derived from it keep their storage; and as long as the caller
\* keeps to the contract (no call on a handle it has released or whose Model
\* it has released, no second release), no object is used after its release
\* and none is released twice.
C10_ReleaseDoesNotCascade ==
    /\ [][\A m \in ModelSlots :
              hop' = <<"delete_model", m>> /\ proc' = "running"
                  => /\ models'[m].st = "released"
                     /\ \A o \in ModelSlots \ {m} : models'[o] = models[o]
                     /\ taggers' = taggers
                     /\ lattices' = lattices]_vars
    /\ [](callerOK => fault \notin {"use_after_release", "double_release"})

\* a Tagger has been released by delete_tagger after its Model was released
C10_Witness ==
    /\ hop[1] = "delete_tagger" /\ proc = "running" /\ callerOK
    /\ taggers[hop[2]].st = "released"
    /\ models[taggers[hop[2]].model].st = "released"

====
